---- MODULE Spec2Model ----
(***************************************************************************)
(* CAHC, the custom symmetric cipher of src/src/crypto/bcrypt.ts (lines    *)
(* 75-407), and the section of the page that drives it                     *)
(* (src/unnamed/part_000).                                                  *)
(*                                                                         *)
(* Bytes are symbolic.  A byte is [c |-> 0..255, x |-> set of atoms] and   *)
(* stands for c XOR (the XOR of its atoms); an atom is one output byte of  *)
(* a keyed primitive (PBKDF2, HMAC-SHA256, AES, HMAC-SHA512), named by the *)
(* primitive and its input.  Two bytes are equal exactly when they have    *)
(* the same c and the same atoms: the primitives are taken as              *)
(* collision-free and their outputs as independent.                        *)
(*                                                                         *)
(* A CryptoJS WordArray is [b |-> its sigBytes significant bytes,          *)
(* tail |-> the bytes of its last word that lie beyond sigBytes].  The     *)
(* library keeps whole 32-bit words; the tail is what the last word holds  *)
(* after the data ends.                                                    *)
(***************************************************************************)
EXTENDS Integers, Sequences, FiniteSets, TLC

\* ------------------------------------------------------------------ bytes

Min(a, b) == IF a < b THEN a ELSE b

Max(a, b) == IF a > b THEN a ELSE b

RECURSIVE XorInt(_, _)
XorInt(a, b) ==
    IF a = 0 THEN b
    ELSE IF b = 0 THEN a
    ELSE ((a + b) % 2) + 2 * XorInt(a \div 2, b \div 2)

Byte(c) == [c |-> c, x |-> {}]

Atom(a) == [c |-> 0, x |-> {a}]

Known(p) == p.x = {}

XorByte(p, q) == [c |-> XorInt(p.c, q.c), x |-> (p.x \ q.x) \cup (q.x \ p.x)]

Bytes(s) == [i \in 1..Len(s) |-> Byte(s[i])]

AllKnown(s) == \A i \in 1..Len(s) : Known(s[i])

Values(s) == [i \in 1..Len(s) |-> s[i].c]

\* s[from+1 .. to], 0-based half-open like String.prototype.substring on bytes
Slice(s, from, to) == SubSeq(s, Min(from, Len(s)) + 1, Min(to, Len(s)))

\* ------------------------------------------------------------ WordArray

\* number of bytes between sigBytes = n and the end of the last word
TailLen(n) == (4 - (n % 4)) % 4

ZeroTail(n) == [i \in 1..TailLen(n) |-> Byte(0)]

\* a WordArray whose last word is zero beyond sigBytes (Hex.parse, Utf8.parse,
\* clamp())
Clean(b) == [b |-> b, tail |-> ZeroTail(Len(b))]

\* WordArray.concat: clamps the receiver, then copies the argument word by word
\* when the receiver ends on a word boundary (the argument's tail comes along)
\* and byte by byte otherwise (it does not).
Concat(this, that) ==
    [b    |-> this.b \o that.b,
     tail |-> IF Len(this.b) % 4 = 0 /\ Len(that.b) > 0
              THEN that.tail
              ELSE ZeroTail(Len(this.b) + Len(that.b))]

\* ------------------------------------------------------------ encodings

\* A string is Text(s), s its code points (the model's alphabet needs at most
\* two bytes per character), or B64(c), the characters of a Base64 text:
\* c holds, for every four characters, the bytes they spell.
Text(s) == [t |-> "text", s |-> s, c |-> <<>>]

B64(c) == [t |-> "b64", s |-> <<>>, c |-> c]

\* what decoding gives when the bytes are not UTF-8
Malformed == [t |-> "malformed", s |-> <<>>, c |-> <<>>]

\* a string whose characters come from keystream bytes and not from any
\* text of the model
Garbled == [t |-> "garbled", s |-> <<>>, c |-> <<>>]

Utf8Bytes(cp) ==
    IF cp < 128 THEN <<cp>> ELSE <<192 + (cp \div 64), 128 + (cp % 64)>>

\* the recursions on sequences halve their argument
RECURSIVE Utf8Encode(_)
Utf8Encode(str) ==
    IF str = <<>> THEN <<>>
    ELSE IF Len(str) = 1 THEN Utf8Bytes(str[1])
    ELSE LET h == Len(str) \div 2
         IN Utf8Encode(SubSeq(str, 1, h)) \o Utf8Encode(SubSeq(str, h + 1, Len(str)))

\* the characters of a Base64 text are ASCII, one byte each; character j of
\* group k is named by the bytes the group spells
B64CharBytes(c) ==
    [i \in 1..(4 * Len(c)) |->
        Atom(<<"Base64Char", c[((i - 1) \div 4) + 1], <<>>, (i - 1) % 4>>)]

\* CryptoJS.enc.Utf8.parse
Utf8Parse(str) ==
    IF str.t = "b64" THEN Clean(B64CharBytes(str.c))
    ELSE Clean(Bytes(Utf8Encode(str.s)))

IsContinuation(v) == v >= 128 /\ v < 192

NotUtf8 == <<-1>>

\* decodeURIComponent(escape(latin1)) on byte values: one- and two-byte
\* sequences are decoded, anything else is malformed.  A long sequence is
\* cut between two characters.
RECURSIVE Utf8Decode(_)
Utf8Decode(v) ==
    IF v = <<>> THEN <<>>
    ELSE IF Len(v) = 1
         THEN IF v[1] < 128 THEN v ELSE NotUtf8
    ELSE IF Len(v) = 2
         THEN IF v[1] < 128 /\ v[2] < 128 THEN v
              ELSE IF v[1] >= 194 /\ v[1] < 224 /\ IsContinuation(v[2])
                   THEN <<(v[1] - 192) * 64 + (v[2] - 128)>>
              ELSE NotUtf8
    ELSE LET h == (Len(v) + 1) \div 2
             cut == IF IsContinuation(v[h + 1]) THEN h - 1 ELSE h
             l == Utf8Decode(SubSeq(v, 1, cut))
             r == Utf8Decode(SubSeq(v, cut + 1, Len(v)))
         IN IF l = NotUtf8 \/ r = NotUtf8 THEN NotUtf8 ELSE l \o r

\* the bytes are the characters of a Base64 text
IsB64Chars(b) ==
    /\ Len(b) > 0 /\ Len(b) % 4 = 0
    /\ \A i \in 1..Len(b) :
          /\ b[i].c = 0 /\ Cardinality(b[i].x) = 1
          /\ \A a \in b[i].x : a[1] = "Base64Char"
    /\ LET c == [k \in 1..(Len(b) \div 4) |-> (CHOOSE a \in b[4 * k - 3].x : TRUE)[2]]
       IN b = B64CharBytes(c)

\* wordArray.toString(CryptoJS.enc.Utf8) when the bytes decide the string;
\* Garbled when keystream is left in them
Utf8Stringify(wa) ==
    IF AllKnown(wa.b)
    THEN LET d == Utf8Decode(Values(wa.b))
         IN IF d = NotUtf8 THEN Malformed ELSE Text(d)
    ELSE IF IsB64Chars(wa.b)
    THEN B64([k \in 1..(Len(wa.b) \div 4) |-> (CHOOSE a \in wa.b[4 * k - 3].x : TRUE)[2]])
    ELSE Garbled

\* toString(CryptoJS.enc.Hex): two characters per significant byte; the tail
\* is not printed.  A hex string is modelled by the bytes it spells, and
\* character offsets (always even in this program) are halved.
HexStringify(wa) == wa.b

\* hex.length
HexLength(hex) == 2 * Len(hex)

HexSubstring(hex, from, to) == Slice(hex, from \div 2, to \div 2)

HexSubstringFrom(hex, from) == Slice(hex, from \div 2, Len(hex))

\* CryptoJS.enc.Hex.parse
HexParse(hex) == Clean(hex)

\* toString(CryptoJS.enc.Base64): groups of three bytes become four
\* characters, the last group is padded; the tail is not printed
Base64Stringify(b) ==
    B64([k \in 1..((Len(b) + 2) \div 3) |-> SubSeq(b, 3 * k - 2, Min(3 * k, Len(b)))])

\* the six bits of a character of the Base64 alphabet; a character outside
\* it has no entry in the reverse map and counts as 0 in the bit operations
Base64Value(cp) ==
    IF cp >= 65 /\ cp <= 90 THEN cp - 65
    ELSE IF cp >= 97 /\ cp <= 122 THEN cp - 71
    ELSE IF cp >= 48 /\ cp <= 57 THEN cp + 4
    ELSE IF cp = 43 THEN 62
    ELSE IF cp = 47 THEN 63
    ELSE 0

\* Base64.parse of typed characters: the text ends at the first '=', and
\* every character that is not the first of its group of four closes a byte
TextBase64Bytes(str) ==
    LET pads == {i \in 1..Len(str) : str[i] = 61}
        n == IF pads = {} THEN Len(str) ELSE (CHOOSE i \in pads : \A j \in pads : i <= j) - 1
        at == {i \in 1..n : (i - 1) % 4 # 0}
        byte(i) == LET k == (i - 1) % 4
                       up == IF k = 1 THEN 4 ELSE IF k = 2 THEN 16 ELSE 64
                       down == IF k = 1 THEN 16 ELSE IF k = 2 THEN 4 ELSE 1
                   IN ((Base64Value(str[i - 1]) * up) % 256) + (Base64Value(str[i]) \div down)
    IN [m \in 1..Cardinality(at) |-> Byte(byte(m + 1 + ((m - 1) \div 3)))]

\* the bytes a Base64 text spells
Base64Bytes(text) ==
    LET c == text.c
        n == IF c = <<>> THEN 0 ELSE 3 * (Len(c) - 1) + Len(c[Len(c)])
    IN IF text.t = "text" THEN TextBase64Bytes(text.s)
       ELSE [i \in 1..n |-> c[((i - 1) \div 3) + 1][((i - 1) % 3) + 1]]

\* CryptoJS.enc.Base64.parse
Base64Parse(text) == Clean(Base64Bytes(text))

\* the four bytes of n, lowest first
IterHex_LittleEndian(n) ==
    <<Byte(n % 256), Byte((n \div 256) % 256),
      Byte((n \div 65536) % 256), Byte((n \div 16777216) % 256)>>

\* iterations.toString(16).padStart(8, '0'), for 0 <= n < 2^31
IterHex(n) ==
    <<Byte((n \div 16777216) % 256), Byte((n \div 65536) % 256),
      Byte((n \div 256) % 256), Byte(n % 256)>>

NaN == -1

MaxInt == 2147483647

\* parseInt(hex, 16) of a (possibly shortened) hex field; values of 2^31 and
\* more are represented by MaxInt
RECURSIVE BigEndian(_)
BigEndian(v) ==
    IF v = <<>> THEN 0 ELSE v[Len(v)] + 256 * BigEndian(SubSeq(v, 1, Len(v) - 1))

ParseHexInt(hex) ==
    IF hex = <<>> THEN NaN
    ELSE IF Len(hex) = 4 /\ hex[1].c >= 128 THEN MaxInt
    ELSE BigEndian(Values(hex))

\* ----------------------------------------------------------- primitives

\* number of 32-bit words CryptoJS.PBKDF2 is asked for (keySize: 512 / 32)
KeySizeWords == 16

\* PBKDF2 runs its inner loop for i = 1 .. iterations - 1: every count below 2
\* (and NaN) derives what one iteration derives
PBKDF2Rounds(iterations) == IF iterations < 1 THEN 1 ELSE iterations

\* CryptoJS.PBKDF2(masterKey, salt, {keySize, iterations, hasher}): the name of
\* the derived material.  The salt enters through the hasher, which reads
\* its significant bytes only.
PBKDF2(masterKey, salt, iterations) ==
    [mk |-> masterKey, salt |-> salt.b, iter |-> PBKDF2Rounds(iterations)]

NoMaterial == [mk |-> <<>>, salt |-> <<>>, iter |-> 0]

\* WordArray.create(keyBytes.slice(lo, hi)): words lo .. hi-1 of the derived
\* material, as far as it has them.  A slice with no words is the empty
\* WordArray, whatever it was cut from.
SliceWords(base, lo, hi) ==
    LET n == Max(0, Min(hi, KeySizeWords) - lo)
    IN IF n = 0 THEN [base |-> NoMaterial, lo |-> 0, n |-> 0]
       ELSE [base |-> base, lo |-> lo, n |-> n]

KeyBytes(k) == 4 * k.n

deriveKey(masterKey, salt, iterations) ==
    LET baseKey == PBKDF2(masterKey, salt, iterations)
    IN [encryptionKey |-> SliceWords(baseKey, 0, 8),
        chachaKey     |-> SliceWords(baseKey, 8, 16),
        authKey       |-> SliceWords(baseKey, 16, KeySizeWords)]

\* WordArray.create([i]): one big-endian word
CounterWord(i) == Clean(IterHex(i))

\* keystream byte p (from 0) of chachaLayer for data of n bytes: numBlocks
\* HMAC-SHA256 outputs of 32 bytes each are concatenated; positions past the
\* end of the keystream read keystream.words[i] || 0
KeystreamByte(key, nonce, n, p) ==
    LET numBlocks == (n + 63) \div 64
        input == Concat(Clean(nonce.b), CounterWord(p \div 32))
    IN IF p < 32 * numBlocks
       THEN Atom(<<"HmacSHA256", key, input.b, p % 32>>)
       ELSE Byte(0)

\* a stream layer whose result keeps every byte of its words as significant
chachaLayer_AllWords(data, key, nonce) ==
    LET n == Len(data.b)
        all == data.b \o data.tail
    IN [b    |-> [i \in 1..Len(all) |-> XorByte(all[i], KeystreamByte(key, nonce, n, i - 1))],
        tail |-> <<>>]

\* chachaLayer: the XOR runs over whole words, so the tail is XORed too
chachaLayer(data, key, nonce) ==
    LET n == Len(data.b)
    IN [b    |-> [i \in 1..n |-> XorByte(data.b[i], KeystreamByte(key, nonce, n, i - 1))],
        tail |-> [j \in 1..TailLen(n) |->
                    XorByte(data.tail[j], KeystreamByte(key, nonce, n, n + j - 1))]]

\* CryptoJS.AES with mode CTR and NoPadding, key given as a WordArray: byte p
\* is XORed with byte p % 16 of the cipher's block for (key, iv, block
\* p \div 16).  Blocks are processed whole, so the tail is XORed too.
\* Encryption and decryption are the same operation.
AesCtr(data, key, iv) ==
    LET n == Len(data.b)
        ks(p) == Atom(<<"AES", key, <<iv.b, p \div 16>>, p % 16>>)
    IN [b    |-> [i \in 1..n |-> XorByte(data.b[i], ks(i - 1))],
        tail |-> [j \in 1..TailLen(n) |-> XorByte(data.tail[j], ks(n + j - 1))]]

\* What SHA-512's padding makes of the message's last word: it ORs 0x80 into
\* the first byte after the data and leaves the following bytes as they are.
\* For a tail that holds keystream, absorbed says whether those bytes happen
\* to be 0x00/0x80 followed by zeros, so that the padded word is the one a
\* clean message gives.
ShaPad(tail, absorbed) ==
    LET t == IF absorbed /\ ~AllKnown(tail)
             THEN [j \in 1..Len(tail) |-> Byte(0)] ELSE tail
    IN IF t = <<>> THEN <<>>
       ELSE IF Known(t[1])
            THEN <<Byte(IF t[1].c >= 128 THEN t[1].c ELSE t[1].c + 128)>> \o Tail(t)
       ELSE t

HmacLen == 64

\* CryptoJS.HmacSHA512(message, key): 64 bytes.  The digest is an injective
\* function of (key, significant bytes, padded last word); byte 0 carries
\* that name and the other bytes carry their position.
HmacSHA512(message, key, absorbed) ==
    LET name == [data |-> message.b, pad |-> ShaPad(message.tail, absorbed)]
        none == [data |-> <<>>, pad |-> <<>>]
    IN [i \in 1..HmacLen |->
          Atom(<<"HmacSHA512", key, IF i = 1 THEN name ELSE none, i - 1>>)]

\* ------------------------------------------------------- encrypt, by stage

None == <<>>

Some(v) == <<v>>

\* a || d for an optional number: undefined and 0 are falsy
OrDefault(opt, d) == IF opt = None \/ opt[1] = 0 THEN d ELSE opt[1]

\* CryptoJS.lib.WordArray.random(size): the draw picks the first byte
Random(size, draw) == Clean([i \in 1..Max(0, size) |-> Byte((draw + i - 1) % 256)])

generateSalt(size, draw) == Random(size, draw)

generateNonce(size, draw) == Random(size, draw)

\* Math.max(1000, Math.min(100000, params.iterations || 10000))
ClampIterations(opt) == Max(1000, Min(100000, OrDefault(opt, 10000)))

\* lines 213-225: parameters, salt, nonce, derived keys.  rnd holds what the
\* random source returns in this call.
EncryptSetup(masterKey, params, rnd) ==
    LET key == IF masterKey = <<>> THEN rnd.key ELSE masterKey
        iterations == ClampIterations(params.iterations)
        saltSize == OrDefault(params.saltSize, 32)
        salt == IF params.customSalt # None /\ params.customSalt[1] # <<>>
                THEN HexParse(Bytes(params.customSalt[1]))
                ELSE generateSalt(saltSize, rnd.salt)
        nonce == generateNonce(12, rnd.nonce)
    IN [key |-> key, iterations |-> iterations, salt |-> salt, nonce |-> nonce,
        keys |-> deriveKey(key, salt, iterations)]

\* authenticated data that starts with the nonce
AuthData_NonceFirst(salt, nonce, ciphertextWords) ==
    Concat(Concat(Clean(nonce.b), salt), ciphertextWords)

\* authenticated data that leaves the nonce out
AuthData_NoNonce(salt, nonce, ciphertextWords) ==
    Concat(Clean(salt.b), ciphertextWords)

\* lines 248-251
AuthData(salt, nonce, ciphertextWords) ==
    Concat(Concat(Clean(salt.b), nonce), ciphertextWords)

\* lines 259-275: the package, as the Base64 text of the hex concatenation
Package(iterations, salt, nonce, hmac, ciphertextWords) ==
    LET versionHex == <<Byte(1)>>
        iterHex == IterHex(iterations)
        completeHex == versionHex \o iterHex \o HexStringify(salt)
                       \o HexStringify(nonce) \o hmac \o HexStringify(ciphertextWords)
    IN Base64Stringify(HexStringify(HexParse(completeHex)))

\* encrypt, lines 208-281, as one function of its arguments, of what the
\* random source returns (rnd) and of what the unclamped tail of the
\* ciphertext holds (absorbed).  keys is not part of the EncryptionResult: it
\* is what the call passed on to the layers.
encrypt(plaintext, masterKey, params, rnd, absorbed) ==
    LET s == EncryptSetup(masterKey, params, rnd)
        layer1 == chachaLayer(Utf8Parse(plaintext), s.keys.chachaKey, s.nonce)
        ciphertextWords == AesCtr(layer1, s.keys.encryptionKey, s.nonce)
        hmac == HmacSHA512(AuthData(s.salt, s.nonce, ciphertextWords),
                           s.keys.authKey,
                           absorbed /\ ~AllKnown(ciphertextWords.tail))
    IN [ciphertext |-> Package(s.iterations, s.salt, s.nonce, hmac, ciphertextWords),
        key |-> s.key, salt |-> HexStringify(s.salt), iterations |-> s.iterations,
        keys |-> s.keys]

\* ------------------------------------------------------- decrypt, by stage

\* lines 296-334: the fields decrypt cuts out of the package's hex string
ParsePackage(packageHex) ==
    [iterations   |-> ParseHexInt(HexSubstring(packageHex, 2, 10)),
     salt         |-> HexParse(HexSubstring(packageHex, 10, 74)),
     nonce        |-> HexParse(HexSubstring(packageHex, 74, 98)),
     expectedHmac |-> HexStringify(HexParse(HexSubstring(packageHex, 98, 226))),
     ciphertextWords |-> HexParse(HexSubstringFrom(packageHex, 226))]

\* line 299-300
ParseVersion(packageHex) == ParseHexInt(HexSubstring(packageHex, 0, 2))

\* What console.log is given.  An entry holds the characters of a logged
\* string, or the bytes a logged hex or Base64 text spells.
LogText(label, str) == [label |-> label, text |-> str, bytes |-> <<>>]

LogBytes(label, b) == [label |-> label, text |-> <<>>, bytes |-> b]

\* encrypt, lines 253-257
EncryptLog(key, salt, nonce, ciphertextWords, hmac) ==
    <<LogText("[ENCRYPT] Key (first 20 chars):", Slice(key, 0, 20)),
      LogBytes("[ENCRYPT] Salt hex:", HexSubstring(HexStringify(salt), 0, 20)),
      LogBytes("[ENCRYPT] Nonce hex:", HexStringify(nonce)),
      LogBytes("[ENCRYPT] Ciphertext hex:",
               HexSubstring(HexStringify(ciphertextWords), 0, 20)),
      LogBytes("[ENCRYPT] HMAC:", HexSubstring(hmac, 0, 30))>>

\* decrypt, lines 302-304: 30 Base64 characters spell 22 whole bytes
DecryptDebugLog(ciphertext, packageHex) ==
    <<LogBytes("[DECRYPT] Base64 (first 30):", Slice(Base64Bytes(ciphertext), 0, 22)),
      LogBytes("[DECRYPT] Hex (first 20):", HexSubstring(packageHex, 0, 20)),
      LogBytes("[DECRYPT] Version hex:", HexSubstring(packageHex, 0, 2))>>

\* decrypt, lines 345-352
DecryptLog(key, iterations, salt, nonce, ciphertextWords, expectedHmac, computedHmac) ==
    <<LogText("[DECRYPT] Key (first 20 chars):", Slice(key, 0, 20)),
      LogBytes("[DECRYPT] Iterations:", IF iterations < 0 THEN <<>> ELSE IterHex(iterations)),
      LogBytes("[DECRYPT] Salt hex:", HexSubstring(HexStringify(salt), 0, 20)),
      LogBytes("[DECRYPT] Nonce hex:", HexStringify(nonce)),
      LogBytes("[DECRYPT] Ciphertext hex:",
               HexSubstring(HexStringify(ciphertextWords), 0, 20)),
      LogBytes("[DECRYPT] Expected HMAC:", HexSubstring(expectedHmac, 0, 30)),
      LogBytes("[DECRYPT] Computed HMAC:", HexSubstring(computedHmac, 0, 30))>>

\* getEncryptionInfo, lines 389-407
getEncryptionInfo(ciphertext) ==
    LET packageHex == HexStringify(Base64Parse(ciphertext))
    IN [version |-> ParseHexInt(HexSubstring(packageHex, 0, 2)),
        iterations |-> ParseHexInt(HexSubstring(packageHex, 2, 10)),
        saltSize |-> 32,
        ciphertextSize |-> (HexLength(packageHex) - 226) \div 2]

\* ------------------------------------------------------------- the state

VARIABLES
    op,     \* the core function that is running: "none", "encrypt", "decrypt",
            \* "getEncryptionInfo"
    pc,     \* its stage (the states of the round-trip state machine)
    loc,    \* its arguments and local variables
    made,   \* what the caller holds of its last encrypt call: the arguments
            \* it passed and the EncryptionResult it got back
    ui,     \* the custom-symmetric section of the page: its elements and the
            \* module variable lastEncryptionResult
    timers, \* the callbacks setTimeout holds, in the order they will run
    calls   \* the calls of the module's functions a caller has made one after
            \* the other, each with its arguments and what it gave

coreVars == <<op, pc, loc>>

uiVars == <<ui, timers>>

vars == <<op, pc, loc, made, ui, timers, calls>>

EmptyWA == Clean(<<>>)

NoKeys ==
    [encryptionKey |-> SliceWords(NoMaterial, 0, 0),
     chachaKey     |-> SliceWords(NoMaterial, 0, 0),
     authKey       |-> SliceWords(NoMaterial, 0, 0)]

NoParams == [iterations |-> None, saltSize |-> None, customSalt |-> None]

NoMutation == [kind |-> "none", pos |-> 0, bit |-> 0]

NoInfo == [version |-> 0, iterations |-> 0, saltSize |-> 0, ciphertextSize |-> 0]

Blank ==
    [plaintext |-> Text(<<>>), masterKey |-> <<>>, params |-> NoParams,
     text |-> B64(<<>>), mut |-> NoMutation, packageHex |-> <<>>,
     key |-> <<>>, iterations |-> 0, salt |-> EmptyWA, nonce |-> EmptyWA,
     keys |-> NoKeys, derived |-> FALSE,
     layer1 |-> EmptyWA, ciphertextWords |-> EmptyWA,
     hmac |-> <<>>, expectedHmac |-> <<>>,
     plainWords |-> EmptyWA, result |-> Text(<<>>), error |-> "",
     info |-> NoInfo, log |-> <<>>, paramSalt |-> None, inspected |-> 0]

\* ---------------------------------------------------------------- inputs

Run(cp, n) == [i \in 1..n |-> cp]

\* the longest plaintext, in characters: one 64-byte block and a short second
MaxPlainLen == 68

\* "", "a", "é", "abcd", "mm...m"
Plaintexts ==
    {Text(<<>>), Text(<<97>>), Text(<<233>>), Text(<<97, 98, 99, 100>>),
     Text(Run(109, MaxPlainLen))}

\* "k1"
K1 == <<107, 49>>

\* "c0ffee", a key generateSecureKey returns
C0ffee == <<99, 48, 102, 102, 101, 101>>

MasterKeyArgs == {<<>>, K1}

GeneratedKeys == {C0ffee}

DecryptKeys == {K1, C0ffee}

IterationArgs == {None, Some(999), Some(100001)}

SaltArgs ==
    {[saltSize |-> None, customSalt |-> None],
     [saltSize |-> Some(16), customSalt |-> None],
     [saltSize |-> None, customSalt |-> Some(Run(0, 32))],
     [saltSize |-> None, customSalt |-> Some(<<171, 205>>)]}

\* each parameter is varied with the others at their defaults
ParamArgs ==
    {[iterations |-> i, saltSize |-> None, customSalt |-> None] : i \in IterationArgs}
    \cup {[iterations |-> None, saltSize |-> s.saltSize, customSalt |-> s.customSalt] :
            s \in SaltArgs}

RandomDraws ==
    {[key |-> k, salt |-> 17, nonce |-> 161] : k \in GeneratedKeys}
    \cup {[key |-> k, salt |-> 34, nonce |-> 178] : k \in GeneratedKeys}

\* a salt that no package of the model holds, as params.salt of decrypt
OtherSalt == Bytes(Run(238, 32))

\* params.salt of decrypt: absent, the salt encrypt returned, another one
DecryptSaltArgs(saltHex) == {None, Some(saltHex), Some(OtherSalt)}

\* what a caller of decrypt may have done to the package it passes
HeaderLen == 113

Positions(len) == {p \in {0, 1, 4, 5, 36, 37, 48, 49, 112, 113, len - 1} : p >= 0 /\ p < len}

Cuts(len) == {n \in {0, 1, 50, 112} : n < len}

\* the lowest bit of the first and last byte of every field, and the highest
\* bit of the version and of the iteration count
Mutations(len) ==
    {NoMutation}
    \cup {[kind |-> "flip", pos |-> p, bit |-> 0] : p \in Positions(len)}
    \cup {[kind |-> "flip", pos |-> p, bit |-> 7] : p \in {0, 1} \cap Positions(len)}
    \cup {[kind |-> "cut", pos |-> n, bit |-> 0] : n \in Cuts(len)}

Pow2(k) == IF k = 0 THEN 1 ELSE 128

Mutate(text, m) ==
    LET b == Base64Bytes(text)
    IN IF m.kind = "flip"
       THEN Base64Stringify([b EXCEPT ![m.pos + 1] = XorByte(@, Byte(Pow2(m.bit)))])
       ELSE IF m.kind = "cut" THEN Base64Stringify(SubSeq(b, 1, m.pos))
       ELSE text

\* -------------------------------------------------------------- the page

\* String.prototype.trim: white space is removed at both ends
IsSpace(cp) == cp \in {9, 10, 11, 12, 13, 32, 160}

Trim(s) ==
    LET keep == {i \in 1..Len(s) : ~IsSpace(s[i])}
    IN IF keep = {} THEN <<>>
       ELSE SubSeq(s, CHOOSE i \in keep : \A j \in keep : i <= j,
                      CHOOSE i \in keep : \A j \in keep : i >= j)

\* trim of a field's value; a Base64 text has no white space
TrimString(str) == IF str.t = "text" THEN Text(Trim(str.s)) ELSE str

\* the value of a character as a digit: 0-9, a-z, A-Z
DigitValue(cp) ==
    IF cp >= 48 /\ cp <= 57 THEN cp - 48
    ELSE IF cp >= 97 /\ cp <= 122 THEN cp - 87
    ELSE IF cp >= 65 /\ cp <= 90 THEN cp - 55
    ELSE 36

RECURSIVE DigitsValue(_, _)
DigitsValue(digits, radix) ==
    IF digits = <<>> THEN 0
    ELSE DigitValue(digits[Len(digits)])
         + radix * DigitsValue(SubSeq(digits, 1, Len(digits) - 1), radix)

\* parseInt(string) without a radix: leading white space, a sign, a 0x or 0X
\* prefix for radix 16, then the longest run of digits; None is NaN
ParseInt(string) ==
    LET t == Trim(string)
        signed == t # <<>> /\ t[1] \in {43, 45}
        u == IF signed THEN Tail(t) ELSE t
        hex == Len(u) >= 2 /\ u[1] = 48 /\ u[2] \in {88, 120}
        radix == IF hex THEN 16 ELSE 10
        body == IF hex THEN SubSeq(u, 3, Len(u)) ELSE u
        n == CHOOSE k \in 0..Len(body) :
                /\ \A i \in 1..k : DigitValue(body[i]) < radix
                /\ k = Len(body) \/ DigitValue(body[k + 1]) >= radix
        value == DigitsValue(SubSeq(body, 1, n), radix)
    IN IF n = 0 THEN None
       ELSE Some(IF signed /\ t[1] = 45 THEN 0 - value ELSE value)

\* displayResult, lines 31-49: the output is replaced, then the copy button
\* is shown or hidden
DisplayResult(u, result, isError) ==
    [u EXCEPT !.output = Some([text |-> result, isError |-> isError, metadata |-> None,
                               message |-> None]),
              !.copyDisplay = IF ~u.copyBtn THEN @
                              ELSE IF isError THEN "none" ELSE "block"]

\* line 48 dereferences copyBtn, which is null when the page has no such
\* element: displayResult throws after it has replaced the output
DisplayThrows(u) == ~u.copyBtn

\* displayMetadata, lines 54-76
DisplayMetadata(u, metadata) ==
    [u EXCEPT !.output = Some([@[1] EXCEPT !.metadata =
                 Some([iterations |-> metadata.iterations,
                       salt |-> Slice(metadata.salt, 0, 8),
                       key |-> Slice(metadata.key, 0, 16)])])]

\* before initCustomSymmetricSection has run
NoPage ==
    [loaded |-> FALSE,
     listening |-> FALSE, iterationsField |-> None, generateKeyBtn |-> FALSE,
     copyBtn |-> FALSE, inputField |-> Text(<<>>), keyField |-> <<>>,
     encryptDisabled |-> FALSE, output |-> None, copyDisplay |-> "",
     lastEncryptionResult |-> None, scheduled |-> 0,
     decryptDisabled |-> FALSE, decrypts |-> 0]

\* --------------------------------------------------------------- actions

Init ==
    /\ op = "none"
    /\ pc = "Idle"
    /\ loc = Blank
    /\ made = None
    /\ ui = NoPage
    /\ timers = <<>>
    /\ calls = <<>>

\* encrypt, lines 213-225
EncryptCall(plaintext, masterKey, params, rnd) ==
    /\ pc = "Idle"
    /\ LET s == EncryptSetup(masterKey, params, rnd)
       IN loc' = [Blank EXCEPT !.plaintext = plaintext, !.masterKey = masterKey,
                     !.params = params, !.key = s.key, !.iterations = s.iterations,
                     !.salt = s.salt, !.nonce = s.nonce, !.keys = s.keys,
                     !.derived = TRUE]
    /\ op' = "encrypt"
    /\ pc' = "DerivingKeys"
    /\ made' = None
    /\ UNCHANGED <<uiVars, calls>>

\* encrypt, lines 227-231
EncryptStream ==
    /\ op = "encrypt" /\ pc = "DerivingKeys"
    /\ loc' = [loc EXCEPT !.layer1 =
                  chachaLayer(Utf8Parse(loc.plaintext), loc.keys.chachaKey, loc.nonce)]
    /\ pc' = "StreamTransforming"
    /\ UNCHANGED <<op, made, ui, timers, calls>>

\* encrypt, lines 233-245
EncryptBlock ==
    /\ op = "encrypt" /\ pc = "StreamTransforming"
    /\ loc' = [loc EXCEPT !.ciphertextWords =
                  AesCtr(loc.layer1, loc.keys.encryptionKey, loc.nonce)]
    /\ pc' = "BlockTransforming"
    /\ UNCHANGED <<op, made, ui, timers, calls>>

\* encrypt, lines 247-257
EncryptAuthenticate(absorbed) ==
    /\ op = "encrypt" /\ pc = "BlockTransforming"
    /\ absorbed => ~AllKnown(loc.ciphertextWords.tail)
    /\ LET hmac == HmacSHA512(AuthData(loc.salt, loc.nonce, loc.ciphertextWords),
                              loc.keys.authKey, absorbed)
       IN loc' = [loc EXCEPT !.hmac = hmac,
                     !.log = @ \o EncryptLog(loc.key, loc.salt, loc.nonce,
                                             loc.ciphertextWords, hmac)]
    /\ pc' = "Authenticating"
    /\ UNCHANGED <<op, made, ui, timers, calls>>

\* encrypt, lines 259-275
EncryptEncode ==
    /\ op = "encrypt" /\ pc = "Authenticating"
    /\ loc' = [loc EXCEPT !.text =
                  Package(loc.iterations, loc.salt, loc.nonce, loc.hmac,
                          loc.ciphertextWords)]
    /\ pc' = "Encoded"
    /\ UNCHANGED <<op, made, ui, timers, calls>>

\* encrypt, lines 274-280: the result goes to the caller
EncryptReturn ==
    /\ op = "encrypt" /\ pc = "Encoded"
    /\ made' = Some([plaintext |-> loc.plaintext, masterKey |-> loc.masterKey,
                      params |-> loc.params, ciphertext |-> loc.text,
                      key |-> loc.key, salt |-> HexStringify(loc.salt),
                      iterations |-> loc.iterations, keys |-> loc.keys])
    /\ loc' = Blank
    /\ op' = "none"
    /\ pc' = "Idle"
    /\ UNCHANGED <<uiVars, calls>>

\* decrypt, lines 288-294
DecryptCall ==
    /\ pc = "Idle"
    /\ made # None
    /\ \E m \in Mutations(Len(Base64Bytes(made[1].ciphertext))), key \in DecryptKeys,
          salt \in DecryptSaltArgs(made[1].salt) :
         LET text == Mutate(made[1].ciphertext, m)
         IN /\ salt # None => m = NoMutation
            /\ loc' = [Blank EXCEPT !.text = text, !.mut = m, !.key = key,
                          !.paramSalt = salt,
                          !.packageHex = HexStringify(Base64Parse(text))]
    /\ op' = "decrypt"
    /\ pc' = "Decoding"
    /\ UNCHANGED <<made, ui, timers, calls>>

\* a gate that lets every version up to 1 through
VersionSupported_AtMost(version) == version <= 1

\* line 307: version !== 0x01 throws
VersionSupported(version) == version = 1

\* a decrypt that remembers the salt of the last encrypt
DecryptSalt_Remembered(paramSalt, embedded) ==
    IF made # None THEN HexParse(made[1].salt) ELSE embedded

\* a decrypt that prefers the salt its caller supplies
DecryptSalt_Supplied(paramSalt, embedded) ==
    IF paramSalt = None THEN embedded ELSE HexParse(paramSalt[1])

\* lines 288 and 317-337: params.salt is not read; the salt is the one parsed
\* from the package
DecryptSalt(paramSalt, embedded) == embedded

\* decrypt, lines 296-337: version gate, field parsing, key derivation
DecryptParse ==
    /\ op = "decrypt" /\ pc = "Decoding"
    /\ IF ~VersionSupported(ParseVersion(loc.packageHex))
       THEN /\ loc' = [loc EXCEPT !.error = "UnsupportedVersion",
                          !.log = @ \o DecryptDebugLog(loc.text, loc.packageHex)]
            /\ pc' = "Rejected"
       ELSE LET f == ParsePackage(loc.packageHex)
                salt == DecryptSalt(loc.paramSalt, f.salt)
            IN /\ loc' = [loc EXCEPT !.iterations = f.iterations, !.salt = salt,
                             !.log = @ \o DecryptDebugLog(loc.text, loc.packageHex),
                             !.nonce = f.nonce, !.expectedHmac = f.expectedHmac,
                             !.ciphertextWords = f.ciphertextWords,
                             !.keys = deriveKey(loc.key, salt, f.iterations),
                             !.derived = TRUE]
               /\ pc' = "DerivingKeys"
    /\ UNCHANGED <<op, made, ui, timers, calls>>

\* decrypt, lines 339-352
DecryptAuthenticate ==
    /\ op = "decrypt" /\ pc = "DerivingKeys"
    /\ LET computedHmac == HmacSHA512(AuthData(loc.salt, loc.nonce, loc.ciphertextWords),
                                      loc.keys.authKey, FALSE)
       IN loc' = [loc EXCEPT !.hmac = computedHmac,
                     !.log = @ \o DecryptLog(loc.key, loc.iterations, loc.salt, loc.nonce,
                                             loc.ciphertextWords, loc.expectedHmac,
                                             computedHmac)]
    /\ pc' = "VerifyingTag"
    /\ UNCHANGED <<op, made, ui, timers, calls>>

\* a comparison of the first 15 bytes only, the part lines 347-348 log
TagMismatch_Prefix(computedHmac, expectedHmac) ==
    Slice(computedHmac, 0, 15) # Slice(expectedHmac, 0, 15)

\* line 354: computedHmac.toString() !== expectedHmac.toString()
TagMismatch(computedHmac, expectedHmac) == computedHmac # expectedHmac

\* line 354: how many bytes of the two tags the comparison of their hex
\* strings looks at.  Strings of different lengths are unequal at once;
\* strings of one length are compared up to the first difference.
Inspected(computedHmac, expectedHmac) ==
    IF Len(computedHmac) # Len(expectedHmac) THEN 0
    ELSE LET differ == {i \in 1..Len(computedHmac) : computedHmac[i] # expectedHmac[i]}
         IN IF differ = {} THEN Len(computedHmac)
            ELSE CHOOSE i \in differ : \A j \in differ : i <= j

\* decrypt, lines 354-367
DecryptVerify ==
    /\ op = "decrypt" /\ pc = "VerifyingTag"
    /\ IF TagMismatch(loc.hmac, loc.expectedHmac)
       THEN /\ loc' = [loc EXCEPT !.error = "AuthenticationFailed",
                          !.inspected = Inspected(loc.hmac, loc.expectedHmac)]
            /\ pc' = "Rejected"
       ELSE /\ loc' = [loc EXCEPT !.inspected = Inspected(loc.hmac, loc.expectedHmac),
                          !.layer1 =
                          AesCtr(loc.ciphertextWords, loc.keys.encryptionKey, loc.nonce)]
            /\ pc' = "BlockInverting"
    /\ UNCHANGED <<op, made, ui, timers, calls>>

\* decrypt, lines 369-370
DecryptStream ==
    /\ op = "decrypt" /\ pc = "BlockInverting"
    /\ loc' = [loc EXCEPT !.plainWords =
                  chachaLayer(loc.layer1, loc.keys.chachaKey, loc.nonce)]
    /\ pc' = "StreamInverting"
    /\ UNCHANGED <<op, made, ui, timers, calls>>

\* a check that lets every string through
EmptyResult_Never(result) == FALSE

\* line 375: !result, true of the empty string only
EmptyResult(result) == result = Text(<<>>)

\* decrypt, lines 372-379.  Bytes that still hold keystream decode to a
\* string the keystream decides, or are not UTF-8 at all.
DecryptDecode(wellFormed) ==
    /\ op = "decrypt" /\ pc = "StreamInverting"
    /\ LET decoded == Utf8Stringify(loc.plainWords)
           result == IF decoded = Garbled /\ ~wellFormed THEN Malformed ELSE decoded
       IN /\ wellFormed = (result # Malformed)
          /\ IF result = Malformed
             THEN /\ loc' = [loc EXCEPT !.error = "MalformedUtf8"]
                  /\ pc' = "Rejected"
             ELSE IF EmptyResult(result)
             THEN /\ loc' = [loc EXCEPT !.error = "EmptyPlaintext"]
                  /\ pc' = "Rejected"
             ELSE /\ loc' = [loc EXCEPT !.result = result]
                  /\ pc' = "Plaintext"
    /\ UNCHANGED <<op, made, ui, timers, calls>>

\* decrypt, lines 379-383: the string is returned, or the error is wrapped
\* and thrown
DecryptReturn ==
    /\ op = "decrypt" /\ pc \in {"Plaintext", "Rejected"}
    /\ loc' = Blank
    /\ op' = "none"
    /\ pc' = "Idle"
    /\ UNCHANGED <<made, ui, timers, calls>>

Returned(result, plainWords) ==
    [result |-> result, error |-> "", plainWords |-> plainWords]

Thrown(error, plainWords) ==
    [result |-> Text(<<>>), error |-> error, plainWords |-> plainWords]

\* decrypt, lines 286-384, as one function of its params: what it returns or
\* throws, and the bytes it decoded.  wellFormed decides the decoding of
\* bytes that still hold keystream.
decrypt(params, wellFormed) ==
    LET packageHex == HexStringify(Base64Parse(params.ciphertext))
        f == ParsePackage(packageHex)
        salt == DecryptSalt(params.salt, f.salt)
        keys == deriveKey(params.key, salt, f.iterations)
        computedHmac == HmacSHA512(AuthData(salt, f.nonce, f.ciphertextWords),
                                   keys.authKey, FALSE)
        layer2 == AesCtr(f.ciphertextWords, keys.encryptionKey, f.nonce)
        plainWords == chachaLayer(layer2, keys.chachaKey, f.nonce)
        decoded == Utf8Stringify(plainWords)
        result == IF decoded = Garbled /\ ~wellFormed THEN Malformed ELSE decoded
    IN IF ~VersionSupported(ParseVersion(packageHex))
       THEN Thrown("UnsupportedVersion", EmptyWA)
       ELSE IF TagMismatch(computedHmac, f.expectedHmac)
       THEN Thrown("AuthenticationFailed", EmptyWA)
       ELSE IF result = Malformed THEN Thrown("MalformedUtf8", plainWords)
       ELSE IF EmptyResult(result) THEN Thrown("EmptyPlaintext", plainWords)
       ELSE Returned(result, plainWords)

\* getEncryptionInfo, lines 389-407, called on a package as encrypt
\* returned it or on its first bytes
GetEncryptionInfoCall ==
    /\ pc = "Idle"
    /\ made # None
    /\ \E m \in {n \in Mutations(Len(Base64Bytes(made[1].ciphertext))) : n.kind # "flip"} :
         LET text == Mutate(made[1].ciphertext, m)
         IN loc' = [Blank EXCEPT !.text = text, !.mut = m,
                       !.info = getEncryptionInfo(text)]
    /\ op' = "getEncryptionInfo"
    /\ pc' = "Info"
    /\ UNCHANGED <<made, ui, timers, calls>>

GetEncryptionInfoReturn ==
    /\ op = "getEncryptionInfo" /\ pc = "Info"
    /\ loc' = Blank
    /\ op' = "none"
    /\ pc' = "Idle"
    /\ UNCHANGED <<made, ui, timers, calls>>

Next ==
    \/ \E plaintext \in Plaintexts, masterKey \in MasterKeyArgs,
          params \in ParamArgs, rnd \in RandomDraws :
            EncryptCall(plaintext, masterKey, params, rnd)
    \/ EncryptStream
    \/ EncryptBlock
    \/ \E absorbed \in BOOLEAN : EncryptAuthenticate(absorbed)
    \/ EncryptEncode
    \/ EncryptReturn
    \/ DecryptCall
    \/ DecryptParse
    \/ DecryptAuthenticate
    \/ DecryptVerify
    \/ DecryptStream
    \/ \E wellFormed \in BOOLEAN : DecryptDecode(wellFormed)
    \/ DecryptReturn
    \/ GetEncryptionInfoCall
    \/ GetEncryptionInfoReturn

Spec == Init /\ [][Next]_vars

\* ------------------------------------------------------ the page's actions

\* the encryptions one page schedules
MaxEncryptions == 1

\* the decryptions one page schedules
MaxDecryptions == 1

\* which elements the document has.  required: the five elements line 256
\* checks, taken together.
Pages ==
    {[required |-> TRUE, iterations |-> TRUE, generateKey |-> TRUE, copy |-> TRUE],
     [required |-> TRUE, iterations |-> TRUE, generateKey |-> TRUE, copy |-> FALSE],
     [required |-> TRUE, iterations |-> FALSE, generateKey |-> TRUE, copy |-> TRUE],
     [required |-> TRUE, iterations |-> TRUE, generateKey |-> FALSE, copy |-> TRUE],
     [required |-> FALSE, iterations |-> TRUE, generateKey |-> TRUE, copy |-> TRUE]}

\* " ab "
InputTexts == {Text(<<32, 97, 98, 32>>)}

\* " k1"
KeyTexts == {<<32, 107, 49>>}

\* "0", "999", "0x3e8" (1000), "100001"
IterationTexts ==
    {<<48>>, <<57, 57, 57>>, <<48, 120, 51, 101, 56>>, <<49, 48, 48, 48, 48, 49>>}

\* what the random source returns in a call the page makes
PageDraws == {[key |-> C0ffee, salt |-> 17, nonce |-> 161]}

\* what a direct caller of encrypt passes as params.iterations
ApiIterations ==
    {None, Some(0), Some(0 - 1), Some(1), Some(999), Some(1000), Some(5000),
     Some(100000), Some(100001), Some(MaxInt)}

\* what the caller of encrypt holds after the call
Made(plaintext, masterKey, params, r) ==
    [plaintext |-> plaintext, masterKey |-> masterKey, params |-> params,
     ciphertext |-> r.ciphertext, key |-> r.key, salt |-> r.salt,
     iterations |-> r.iterations, keys |-> r.keys]

\* initCustomSymmetricSection, lines 245-274
initCustomSymmetricSection(page) ==
    /\ ~ui.loaded
    /\ ui' = IF page.required
             THEN [NoPage EXCEPT !.loaded = TRUE, !.listening = TRUE,
                      !.iterationsField = IF page.iterations THEN Some(<<>>) ELSE None,
                      !.generateKeyBtn = page.generateKey, !.copyBtn = page.copy]
             ELSE [NoPage EXCEPT !.loaded = TRUE]
    /\ UNCHANGED <<coreVars, made, timers, calls>>

\* the user types into a field
EditInput(text) ==
    /\ ui.listening
    /\ ui' = [ui EXCEPT !.inputField = text]
    /\ UNCHANGED <<coreVars, made, timers, calls>>

EditKey(text) ==
    /\ ui.listening
    /\ ui' = [ui EXCEPT !.keyField = text]
    /\ UNCHANGED <<coreVars, made, timers, calls>>

EditIterations(text) ==
    /\ ui.listening /\ ui.iterationsField # None
    /\ ui' = [ui EXCEPT !.iterationsField = Some(text)]
    /\ UNCHANGED <<coreVars, made, timers, calls>>

\* lines 95-98
OutOfRange(iterations) == iterations < 1000 \/ iterations > 100000

\* the catch of handleEncrypt, lines 139-143
HandleEncryptCaught(u) ==
    LET shown == DisplayResult(u, "Error", TRUE)
    IN IF DisplayThrows(u) THEN shown ELSE [shown EXCEPT !.encryptDisabled = FALSE]

\* handleEncrypt, lines 81-144, up to the call of setTimeout: a click on the
\* Encrypt button, which the browser delivers while the button is enabled
handleEncrypt ==
    /\ ui.listening /\ ~ui.encryptDisabled
    /\ ui.scheduled < MaxEncryptions
    /\ LET plaintext == TrimString(ui.inputField)
       IN IF plaintext = Text(<<>>)
          THEN /\ ui' = DisplayResult(ui, "PleaseEnterText", TRUE)
               /\ UNCHANGED timers
          ELSE IF ui.iterationsField = None
          THEN /\ ui' = HandleEncryptCaught(ui)
               /\ UNCHANGED timers
          ELSE LET iterations == OrDefault(ParseInt(ui.iterationsField[1]), 10000)
                   masterKey == Trim(ui.keyField)
               IN IF OutOfRange(iterations)
                  THEN /\ ui' = IF DisplayThrows(ui)
                                THEN HandleEncryptCaught(DisplayResult(ui, "IterationsRange", TRUE))
                                ELSE DisplayResult(ui, "IterationsRange", TRUE)
                       /\ UNCHANGED timers
                  ELSE /\ ui' = [ui EXCEPT !.encryptDisabled = TRUE, !.scheduled = @ + 1]
                       /\ timers' = Append(timers,
                             [fn |-> "encrypt", plaintext |-> plaintext,
                              masterKey |-> masterKey,
                              params |-> [NoParams EXCEPT !.iterations = Some(iterations)]])
    /\ UNCHANGED <<coreVars, made, calls>>

\* the callback handleEncrypt passes to setTimeout, lines 109-137
EncryptTimeout(rnd, absorbed) ==
    /\ timers # <<>> /\ Head(timers).fn = "encrypt"
    /\ LET c == Head(timers)
           r == encrypt(c.plaintext, c.masterKey, c.params, rnd, absorbed)
           result == [ciphertext |-> r.ciphertext, key |-> r.key, salt |-> r.salt,
                      iterations |-> r.iterations]
           placed == [ui EXCEPT !.lastEncryptionResult = Some(result),
                                !.keyField = r.key, !.inputField = r.ciphertext]
           shown == DisplayResult(placed, "EncryptedSuccessfully", FALSE)
       IN /\ ui' = IF DisplayThrows(placed)
                   THEN DisplayResult(shown, "EncryptionError", TRUE)
                   ELSE [DisplayMetadata(shown, result) EXCEPT !.encryptDisabled = FALSE]
          /\ made' = Some(Made(c.plaintext, c.masterKey, c.params, r))
    /\ timers' = Tail(timers)
    /\ UNCHANGED <<coreVars, calls>>

\* handleGenerateKey, lines 211-220
handleGenerateKey(key) ==
    /\ ui.listening /\ ui.generateKeyBtn
    /\ ui' = [ui EXCEPT !.keyField = key]
    /\ UNCHANGED <<coreVars, made, timers, calls>>

\* handleDecrypt, lines 149-206, up to the call of setTimeout: a click on the
\* Decrypt button, which the browser delivers while the button is enabled.
\* The callback keeps the ciphertext and the key read at the click.
\* getEncryptionInfo (lines 169-174) is called for the console only.
handleDecrypt ==
    /\ ui.listening /\ ~ui.decryptDisabled
    /\ ui.decrypts < MaxDecryptions
    /\ LET ciphertext == TrimString(ui.inputField)
           key == Trim(ui.keyField)
       IN IF ciphertext = Text(<<>>)
          THEN /\ ui' = DisplayResult(ui, "PleaseEnterCiphertext", TRUE)
               /\ UNCHANGED timers
          ELSE IF key = <<>>
          THEN /\ ui' = DisplayResult(ui, "PleaseEnterKey", TRUE)
               /\ UNCHANGED timers
          ELSE /\ ui' = [ui EXCEPT !.decryptDisabled = TRUE, !.decrypts = @ + 1]
               /\ timers' = Append(timers,
                     [fn |-> "decrypt", ciphertext |-> ciphertext, key |-> key])
    /\ UNCHANGED <<coreVars, made, calls>>

\* the callback handleDecrypt passes to setTimeout, lines 177-198
DecryptTimeout(wellFormed) ==
    /\ timers # <<>> /\ Head(timers).fn = "decrypt"
    /\ LET c == Head(timers)
           outcome == decrypt([ciphertext |-> c.ciphertext, key |-> c.key, salt |-> None],
                              wellFormed)
           shown == [DisplayResult(ui, "DecryptedSuccessfully", FALSE)
                        EXCEPT !.output = Some([@[1] EXCEPT !.message = Some(outcome.result)])]
           failed == DisplayResult(IF outcome.error = "" THEN shown ELSE ui,
                                   "DecryptionError", TRUE)
       IN /\ wellFormed = (outcome.error # "MalformedUtf8")
          /\ ui' = IF outcome.error # "" \/ DisplayThrows(ui)
                   THEN IF DisplayThrows(ui) THEN failed
                        ELSE [failed EXCEPT !.decryptDisabled = FALSE]
                   ELSE [shown EXCEPT !.decryptDisabled = FALSE]
    /\ timers' = Tail(timers)
    /\ UNCHANGED <<coreVars, made, calls>>

\* encrypt called by another module, lines 208-281.  A page that runs the
\* section makes its calls through the handlers.
ApiEncrypt(plaintext, masterKey, params, rnd, absorbed) ==
    /\ ~ui.listening
    /\ made' = Some(Made(plaintext, masterKey, params,
                         encrypt(plaintext, masterKey, params, rnd, absorbed)))
    /\ UNCHANGED <<coreVars, uiVars, calls>>

NextUI ==
    \/ \E page \in Pages : initCustomSymmetricSection(page)
    \/ \E text \in InputTexts : EditInput(text)
    \/ \E text \in KeyTexts : EditKey(text)
    \/ \E text \in IterationTexts : EditIterations(text)
    \/ handleEncrypt
    \/ \E rnd \in PageDraws, absorbed \in BOOLEAN : EncryptTimeout(rnd, absorbed)
    \/ \E key \in GeneratedKeys : handleGenerateKey(key)
    \/ \E iterations \in ApiIterations, rnd \in PageDraws :
          ApiEncrypt(Text(<<97, 98, 99, 100>>), K1,
                     [NoParams EXCEPT !.iterations = iterations], rnd, FALSE)

SpecUI == Init /\ [][NextUI]_vars

\* " ab ", "abcd"
FlowInputTexts == {Text(<<32, 97, 98, 32>>), Text(<<97, 98, 99, 100>>)}

\* the page with both buttons in use and the iterations field left as loaded
NextFlow ==
    \/ \E page \in Pages : initCustomSymmetricSection(page)
    \/ \E text \in FlowInputTexts : EditInput(text)
    \/ \E text \in KeyTexts : EditKey(text)
    \/ handleEncrypt
    \/ \E rnd \in PageDraws, absorbed \in BOOLEAN : EncryptTimeout(rnd, absorbed)
    \/ \E key \in GeneratedKeys : handleGenerateKey(key)
    \/ handleDecrypt
    \/ \E wellFormed \in BOOLEAN : DecryptTimeout(wellFormed)

SpecFlow == Init /\ [][NextFlow]_vars

\* ------------------------------------------------- sequences of calls

\* how many calls a caller makes, one after the other
MaxCalls == 4

\* the packages the encrypt calls made so far have returned
Returned_Packages == {calls[i].outcome.ciphertext : i \in {j \in 1..Len(calls) : calls[j].fn = "encrypt"}}

\* a package as it was returned, or with the first byte of its tag changed
CallMutations == {NoMutation, [kind |-> "flip", pos |-> 49, bit |-> 0]}

\* encrypt(plaintext, masterKey, params), lines 208-281, as one step
CallEncrypt(plaintext, masterKey, params, rnd) ==
    /\ pc = "Idle"
    /\ Len(calls) < MaxCalls
    /\ LET result == encrypt(plaintext, masterKey, params, rnd, FALSE)
       IN /\ made' = Some(Made(plaintext, masterKey, params, result))
          /\ calls' = Append(calls, [fn |-> "encrypt", text |-> plaintext,
                                     key |-> masterKey, outcome |-> result])
    /\ UNCHANGED <<coreVars, uiVars>>

\* decrypt({ciphertext, key}), lines 286-384, as one step
CallDecrypt(wellFormed) ==
    /\ pc = "Idle"
    /\ Len(calls) < MaxCalls
    /\ \E package \in Returned_Packages, m \in CallMutations, key \in DecryptKeys :
         LET text == Mutate(package, m)
             outcome == decrypt([ciphertext |-> text, key |-> key, salt |-> None],
                                wellFormed)
         IN /\ wellFormed = (outcome.error # "MalformedUtf8")
            /\ calls' = Append(calls, [fn |-> "decrypt", text |-> text, key |-> key,
                                       outcome |-> outcome])
    /\ UNCHANGED <<coreVars, made, uiVars>>

\* getEncryptionInfo(ciphertext), lines 389-407, as one step
CallGetEncryptionInfo ==
    /\ pc = "Idle"
    /\ Len(calls) < MaxCalls
    /\ \E package \in Returned_Packages :
         calls' = Append(calls, [fn |-> "getEncryptionInfo", text |-> package,
                                 key |-> <<>>, outcome |-> getEncryptionInfo(package)])
    /\ UNCHANGED <<coreVars, made, uiVars>>

NextCalls ==
    \/ \E rnd \in RandomDraws :
          CallEncrypt(Text(<<97, 98, 99, 100>>), K1, NoParams, rnd)
    \/ \E wellFormed \in BOOLEAN : CallDecrypt(wellFormed)
    \/ CallGetEncryptionInfo

SpecCalls == Init /\ [][NextCalls]_vars

\* ---------------------------------------------------------------- claims

Calling(o) == op = o /\ pc # "Idle"

Returning == op = "decrypt" /\ pc \in {"Plaintext", "Rejected"}

PastTag == pc \in {"BlockInverting", "StreamInverting", "Plaintext"}

\* the package decrypt was given, as bytes
Given == loc.packageHex

\* C1: for every plaintext P, the empty one included, and every non-empty
\* master key K, decrypt of the package encrypt(P, K) returned, with key K,
\* returns exactly P.
C1_RoundTrip ==
    (Returning /\ loc.mut = NoMutation /\ made[1].masterKey # <<>>
        /\ made[1].params = NoParams /\ loc.key = made[1].masterKey)
    => (pc = "Plaintext" /\ loc.result = made[1].plaintext)

\* C2: decrypt of a package from encrypt(P, K) with a different key K' fails
\* at tag verification with the authentication-failure error: it never gets
\* past the tag and never returns a string.
C2_WrongKeyRejected ==
    (Calling("decrypt") /\ loc.mut = NoMutation /\ loc.key # made[1].key)
    => (~PastTag /\ (pc = "Rejected" => loc.error = "AuthenticationFailed"))

InSealedRegion(m) == m.kind = "flip" /\ m.pos >= 5

\* C3: with one bit flipped in the salt, nonce, tag or ciphertext region of a
\* package that encrypt produced, decrypt with the correct key fails with the
\* authentication-failure error and never returns a plaintext.
C3_TamperDetected ==
    (Calling("decrypt") /\ InSealedRegion(loc.mut) /\ loc.key = made[1].key)
    => (~PastTag /\ (pc = "Rejected" => loc.error = "AuthenticationFailed"))

C3_Witness ==
    /\ Calling("decrypt") /\ InSealedRegion(loc.mut) /\ loc.key = made[1].key
    /\ made[1].params = NoParams /\ Len(made[1].plaintext.s) = 4
    /\ pc = "Rejected" /\ loc.error = "AuthenticationFailed"

\* C4: when the recomputed tag differs from the stored tag, decrypt raises
\* before either layer is inverted; BlockInverting is entered only from
\* VerifyingTag with equal tags, and StreamInverting only from BlockInverting.
C4_FailClosed ==
    [][/\ (op = "decrypt" /\ pc = "VerifyingTag" /\ loc.hmac # loc.expectedHmac)
          => (pc' = "Rejected" /\ loc'.error = "AuthenticationFailed"
              /\ loc'.layer1 = EmptyWA /\ loc'.plainWords = EmptyWA)
       /\ (pc' = "BlockInverting" /\ pc # "BlockInverting")
          => (pc = "VerifyingTag" /\ loc.hmac = loc.expectedHmac)
       /\ (pc' = "StreamInverting" /\ pc # "StreamInverting")
          => pc = "BlockInverting"]_vars

C4_Witness ==
    /\ op = "decrypt" /\ pc = "Rejected" /\ loc.error = "AuthenticationFailed"
    /\ loc.hmac # loc.expectedHmac /\ Len(loc.expectedHmac) = HmacLen
    /\ loc.layer1 = EmptyWA

\* C5: a package whose first byte is not 0x01 is refused with the
\* unsupported-version error, whatever follows the byte, before any key is
\* derived and before any tag is computed.
C5_VersionGate ==
    (Calling("decrypt") /\ pc # "Decoding"
        /\ (Given = <<>> \/ Given[1] # Byte(1)))
    => (pc = "Rejected" /\ loc.error = "UnsupportedVersion"
        /\ ~loc.derived /\ loc.hmac = <<>>)

\* the version byte is changed and the rest, the tag included, is as encrypt
\* made it
C5_Witness ==
    /\ Calling("decrypt") /\ loc.mut.kind = "flip" /\ loc.mut.pos = 0
    /\ loc.key = made[1].key /\ made[1].params = NoParams
    /\ pc = "Rejected" /\ loc.error = "UnsupportedVersion"

\* C6: whatever the plaintext, key and params, the package encrypt returns
\* decodes to version (1 byte, 0x01), iterations (4 bytes, big-endian), salt
\* (32 bytes), nonce (12 bytes), tag (64 bytes), ciphertext: 113 bytes plus
\* the ciphertext, and decrypt cuts each field where encrypt wrote it.
C6_EnvelopeLayout ==
    (op = "encrypt" /\ pc = "Encoded")
    => LET b == Base64Bytes(loc.text)
           f == ParsePackage(HexStringify(Base64Parse(loc.text)))
       IN /\ Len(b) = HeaderLen + Len(loc.ciphertextWords.b)
          /\ b[1] = Byte(1)
          /\ f.iterations = loc.iterations
          /\ f.salt.b = loc.salt.b /\ Len(f.salt.b) = 32
          /\ f.nonce.b = loc.nonce.b /\ Len(f.nonce.b) = 12
          /\ f.expectedHmac = loc.hmac /\ Len(f.expectedHmac) = 64
          /\ f.ciphertextWords.b = loc.ciphertextWords.b

\* C7: deriveKey returns three sub-keys of at least 32 bytes each, cut from
\* parts of the derived material that do not overlap; the authentication key
\* is never empty.
C7_SubKeys ==
    loc.derived
    => LET k == loc.keys
           words(s) == s.lo .. (s.lo + s.n - 1)
       IN /\ KeyBytes(k.encryptionKey) >= 32
          /\ KeyBytes(k.chachaKey) >= 32
          /\ KeyBytes(k.authKey) >= 32
          /\ words(k.encryptionKey) \cap words(k.chachaKey) = {}
          /\ words(k.encryptionKey) \cap words(k.authKey) = {}
          /\ words(k.chachaKey) \cap words(k.authKey) = {}

\* C8: a package of fewer than 113 bytes whose version byte, if there is one,
\* is 0x01 is refused with a truncation error, which is not the
\* authentication-failure error, before any key is derived and before any tag
\* is computed.
C8_Truncated ==
    (Calling("decrypt") /\ pc # "Decoding" /\ Len(Given) < HeaderLen
        /\ (Given # <<>> => Given[1] = Byte(1)))
    => (pc = "Rejected" /\ loc.error = "Truncated"
        /\ ~loc.derived /\ loc.hmac = <<>>)

\* the count encrypt passed to deriveKey, the count it stored in the package
\* and the count it returned are one number between 1000 and 100000
EncryptClamped ==
    made # None
    => LET m == made[1]
           stored == ParsePackage(HexStringify(Base64Parse(m.ciphertext))).iterations
       IN /\ m.iterations >= 1000 /\ m.iterations <= 100000
          /\ m.keys.encryptionKey.base.iter = m.iterations
          /\ m.keys.chachaKey.base.iter = m.iterations
          /\ stored = m.iterations

\* the number in the iterations field, None when the field holds no number
Entered == ParseInt(ui.iterationsField[1])

\* C9: for every integer params.iterations, zero, negative and absent
\* included, the count encrypt derives with, stores and returns is one value
\* in [1000, 100000]; and handleEncrypt schedules no call of encrypt when the
\* number in the iterations field is outside that range.
C9_IterationBound ==
    [][/\ EncryptClamped'
       /\ Len(timers') > Len(timers)
          => (Entered = None \/ (Entered[1] >= 1000 /\ Entered[1] <= 100000))]_vars

\* C11: for every package encrypt returns, whatever the params,
\* getEncryptionInfo reports as ciphertextSize the number of ciphertext bytes
\* encrypt placed in it, which is the number of bytes of the plaintext in
\* UTF-8.
C11_InfoSize ==
    /\ (op = "encrypt" /\ pc = "Encoded")
       => Len(loc.ciphertextWords.b) = Len(Utf8Parse(loc.plaintext).b)
    /\ (op = "getEncryptionInfo" /\ pc = "Info" /\ loc.mut = NoMutation)
       => loc.info.ciphertextSize = Len(Utf8Parse(made[1].plaintext).b)

\* part occurs in whole as a run of consecutive elements
Contains(whole, part) ==
    \E from \in 0..(Len(whole) - Len(part)) :
        SubSeq(whole, from + 1, from + Len(part)) = part

\* whole contains a run of secret: two elements or more, or all of a secret
\* of one element (one byte of a longer secret may be met by chance)
Exposes(whole, secret) ==
    \E from \in 1..Len(secret), to \in 1..Len(secret) :
        /\ from <= to
        /\ to - from + 1 >= Min(2, Len(secret))
        /\ Contains(whole, SubSeq(secret, from, to))

\* the bytes of a sub-key: bytes 4*lo .. 4*(lo+n)-1 of the derived material
MaterialBytes(k) ==
    [i \in 1..KeyBytes(k) |-> Atom(<<"PBKDF2", k.base, <<>>, 4 * k.lo + i - 1>>)]

SubKeyBytes(keys) ==
    MaterialBytes(keys.encryptionKey) \o MaterialBytes(keys.chachaKey)
        \o MaterialBytes(keys.authKey)

\* C12: nothing encrypt or decrypt logs contains a part of the master key,
\* of the plaintext, or of a derived sub-key.
C12_NoSecretLogged ==
    \A i \in 1..Len(loc.log) :
        /\ ~Exposes(loc.log[i].text, loc.key)
        /\ ~Exposes(loc.log[i].bytes, Utf8Parse(loc.plaintext).b)
        /\ ~Exposes(loc.log[i].bytes, SubKeyBytes(loc.keys))

\* what the decrypt in progress has returned or thrown
Outcome == [result |-> loc.result, error |-> loc.error, plainWords |-> loc.plainWords]

\* C13: decrypt derives its keys from params.key and from the salt and the
\* iteration count it parses from the package, and nothing else: whatever
\* params.salt is (absent, the embedded salt, another salt), the call ends as
\* the call without params.salt does.
C13_SelfContained ==
    /\ (op = "decrypt" /\ loc.derived)
       => LET f == ParsePackage(loc.packageHex)
          IN loc.keys = deriveKey(loc.key, f.salt, f.iterations)
    /\ Returning
       => \E wellFormed \in BOOLEAN :
             Outcome = decrypt([ciphertext |-> loc.text, key |-> loc.key, salt |-> None],
                               wellFormed)

\* a decrypt given a salt that is not the embedded one has returned a plaintext
C13_Witness ==
    /\ op = "decrypt" /\ pc = "Plaintext"
    /\ loc.paramSalt = Some(OtherSalt)
    /\ loc.paramSalt # Some(made[1].salt)
    /\ loc.result = made[1].plaintext

\* C14: two deriveKey calls whose inputs differ in the master key, the salt
\* or the iteration count return three different sub-keys, the
\* authentication key included.  The calls are the one of the encrypt that
\* made the package and the one of the decrypt in progress.
C14_DerivationSensitive ==
    (/\ op = "decrypt" /\ loc.derived
     /\ <<loc.key, loc.salt.b, loc.iterations>>
           # <<made[1].key, made[1].salt, made[1].iterations>>)
    => /\ loc.keys.encryptionKey # made[1].keys.encryptionKey
       /\ loc.keys.chachaKey # made[1].keys.chachaKey
       /\ loc.keys.authKey # made[1].keys.authKey

\* C15: the comparison of the recomputed tag with the stored tag looks at
\* all 64 bytes, whether and wherever the two tags differ.
C15_ConstantTime ==
    (/\ op = "decrypt"
     /\ \/ PastTag
        \/ pc = "Rejected" /\ loc.error = "AuthenticationFailed")
    => loc.inspected = HmacLen

\* the bytes of the keyed hash of nonce || counter i
BlockKeystream(key, nonce, i) ==
    {Atom(<<"HmacSHA256", key, Concat(Clean(nonce.b), CounterWord(i)).b, k>>) : k \in 0..31}

\* C16: every byte p of the stream layer's output is the input byte XORed
\* with a keystream byte of the keyed hash of nonce || counter i, where
\* i = p \div 64: no position is left without keystream, and block i's
\* keystream goes to the i-th block of 64 bytes.
C16_KeystreamCoverage ==
    (op = "encrypt" /\ pc = "StreamTransforming")
    => LET data == Utf8Parse(loc.plaintext).b
       IN /\ Len(loc.layer1.b) = Len(data)
          /\ \A p \in 0..(Len(data) - 1) :
                \E ks \in BlockKeystream(loc.keys.chachaKey, loc.nonce, p \div 64) :
                    loc.layer1.b[p + 1] = XorByte(data[p + 1], ks)

\* C17: the stream layer is its own inverse: applied with the same key and
\* nonce to its own output for d, it gives d back with the length of d,
\* whatever that length is.  d is the plaintext's bytes in encrypt and the
\* block layer's output in decrypt.
C17_SelfInverse ==
    /\ (op = "encrypt" /\ pc = "StreamTransforming")
       => LET d == Utf8Parse(loc.plaintext)
              again == chachaLayer(loc.layer1, loc.keys.chachaKey, loc.nonce)
          IN again.b = d.b /\ Len(loc.layer1.b) = Len(d.b)
    /\ (op = "decrypt" /\ pc = "StreamInverting")
       => LET again == chachaLayer(loc.plainWords, loc.keys.chachaKey, loc.nonce)
          IN again.b = loc.layer1.b /\ Len(loc.plainWords.b) = Len(loc.layer1.b)

\* the stream layer has changed a plaintext whose length is no multiple of 4
C17_Witness ==
    /\ op = "encrypt" /\ pc = "StreamTransforming"
    /\ Len(Utf8Parse(loc.plaintext).b) % 4 # 0
    /\ loc.layer1.b # Utf8Parse(loc.plaintext).b

\* the message a tag was computed over
TagData(hmac) == (CHOOSE a \in hmac[1].x : TRUE)[3].data

\* the stages of the encrypt in progress that are behind it
Done(stage) ==
    LET order == <<"DerivingKeys", "StreamTransforming", "BlockTransforming",
                   "Authenticating", "Encoded">>
    IN \E i, j \in 1..Len(order) : order[i] = stage /\ order[j] = pc /\ i <= j

\* C18: encrypt derives the keys, then runs the stream layer on the
\* plaintext, then the block layer on the stream layer's output, then
\* computes the tag over salt || nonce || block-layer output (not over the
\* plaintext, not over the stream layer's output), and only then encodes
\* the package; decrypt recomputes the tag over the same three fields in the
\* same order.
C18_PipelineOrder ==
    /\ op = "encrypt" =>
         LET keys == deriveKey(loc.key, loc.salt, loc.iterations)
             plaintextWords == Utf8Parse(loc.plaintext)
         IN /\ Done("DerivingKeys") /\ loc.keys = keys
            /\ IF Done("StreamTransforming")
               THEN loc.layer1 = chachaLayer(plaintextWords, keys.chachaKey, loc.nonce)
               ELSE loc.layer1 = EmptyWA
            /\ IF Done("BlockTransforming")
               THEN loc.ciphertextWords = AesCtr(loc.layer1, keys.encryptionKey, loc.nonce)
               ELSE loc.ciphertextWords = EmptyWA
            /\ IF Done("Authenticating")
               THEN /\ TagData(loc.hmac) = loc.salt.b \o loc.nonce.b \o loc.ciphertextWords.b
                    /\ plaintextWords.b # <<>> =>
                         /\ TagData(loc.hmac) # loc.salt.b \o loc.nonce.b \o plaintextWords.b
                         /\ TagData(loc.hmac) # loc.salt.b \o loc.nonce.b \o loc.layer1.b
               ELSE loc.hmac = <<>>
            /\ IF Done("Encoded")
               THEN loc.text = Package(loc.iterations, loc.salt, loc.nonce, loc.hmac,
                                       loc.ciphertextWords)
               ELSE loc.text = B64(<<>>)
    /\ (op = "decrypt" /\ (pc = "VerifyingTag" \/ PastTag))
       => TagData(loc.hmac) = loc.salt.b \o loc.nonce.b \o loc.ciphertextWords.b

\* an encrypt of a non-empty plaintext has encoded its package
C18_Witness ==
    /\ op = "encrypt" /\ pc = "Encoded"
    /\ loc.plaintext # Text(<<>>)
    /\ loc.text # B64(<<>>)

\* C19: what encrypt returns agrees with its package: result.key is the key
\* the sub-keys were derived from, the masterKey argument when that is not
\* empty and a generated key otherwise; result.salt is the hex of the salt
\* written into the package; result.iterations is the iteration count
\* getEncryptionInfo reads from the package.
C19_ResultMetadata ==
    made # None =>
        LET result == made[1]
            package == Base64Bytes(result.ciphertext)
        IN /\ result.key = IF result.masterKey # <<>> THEN result.masterKey
                           ELSE CHOOSE k \in GeneratedKeys : TRUE
           /\ result.keys = deriveKey(result.key, HexParse(result.salt), result.iterations)
           /\ result.salt = Slice(package, 5, 5 + Len(result.salt))
           /\ Len(package) = 5 + Len(result.salt) + 12 + HmacLen
                               + Len(Utf8Parse(result.plaintext).b)
           /\ result.iterations = getEncryptionInfo(result.ciphertext).iterations

\* encrypt has returned with a generated key and a clamped iteration count
C19_Witness ==
    /\ made # None /\ pc = "Idle"
    /\ made[1].masterKey = <<>>
    /\ made[1].key \in GeneratedKeys
    /\ made[1].params.iterations = Some(100001)
    /\ made[1].iterations = 100000

\* two outcomes of decrypt are the same: the same bytes were decoded, and
\* the same string was returned or the same error thrown wherever the bytes
\* decide it (bytes that hold keystream decode as the keystream decides)
SameOutcome(a, b) ==
    /\ a.plainWords = b.plainWords
    /\ (a.error \in {"", "MalformedUtf8"}) = (b.error \in {"", "MalformedUtf8"})
    /\ Utf8Stringify(a.plainWords) # Garbled => a = b

C21_NeverEmpty ==
    /\ (op = "decrypt" /\ pc = "Plaintext") => loc.result # Text(<<>>)
    /\ (Returning /\ loc.inspected = HmacLen /\ loc.hmac = loc.expectedHmac
        /\ loc.plainWords.b = <<>>)
       => pc = "Rejected" /\ loc.error = "EmptyPlaintext"

\* the package of an empty plaintext passed the tag check and was refused
C21_Witness ==
    /\ op = "decrypt" /\ pc = "Rejected"
    /\ loc.error = "EmptyPlaintext"
    /\ loc.mut = NoMutation
    /\ loc.hmac = loc.expectedHmac
    /\ loc.ciphertextWords.b = <<>>

\* the caller changed a bit of the version byte or of the iteration field
HeaderModified == loc.mut.kind = "flip" /\ loc.mut.pos \in 0..4

\* C22: for a package encrypt(P, K) returned, a change of any bit of the
\* 4-byte iteration field makes decrypt with K throw; decrypt returns no
\* string, and so none other than P, for a package whose header was changed.
C22_IterationFieldProtected ==
    (Returning /\ HeaderModified /\ loc.key = made[1].key)
    => pc = "Rejected"

\* C23: the iteration count decrypt passes to deriveKey lies in
\* 1000 .. 100000: a package whose iteration field is outside that range is
\* refused before keys are derived.
C23_DecryptIterationBound ==
    (op = "decrypt" /\ loc.derived)
    => loc.iterations >= 1000 /\ loc.iterations <= 100000

\* a callback of handleEncrypt waits in setTimeout
EncryptPending == \E i \in 1..Len(timers) : timers[i].fn = "encrypt"

\* C24: in the custom-symmetric section the Encrypt button is disabled
\* exactly while a deferred encryption callback is pending; once the callback
\* has run, with success or with an error thrown, and also on a page without
\* the optional elements, the button is enabled again.
C24_ButtonTracksPending ==
    ui.listening => (ui.encryptDisabled <=> EncryptPending)

\* the callback at the head of the timers runs in this step
CallbackRuns(fn) == timers # <<>> /\ Head(timers).fn = fn /\ timers' = Tail(timers)

\* the encrypt callback ends without an error shown
EncryptCompletes == CallbackRuns("encrypt") /\ ~ui'.output[1].isError

\* the input field holds the produced ciphertext, the key field the key used
FieldsReplaced ==
    ui'.inputField = made'[1].ciphertext /\ ui'.keyField = made'[1].key

\* the decrypt callback runs for a click that followed a completed
\* encryption with no edit in between: it holds what that encryption placed
DecryptOfPlaced ==
    /\ CallbackRuns("decrypt")
    /\ made # None /\ ui.lastEncryptionResult # None /\ ui.copyBtn
    /\ Head(timers).ciphertext = made[1].ciphertext
    /\ Head(timers).key = made[1].key

\* the output shows the plaintext that was entered, trimmed
PlaintextShown ==
    /\ ui'.output # None
    /\ ~ui'.output[1].isError
    /\ ui'.output[1].message = Some(made[1].plaintext)

\* a Decrypt click schedules its callback while an encryption is pending
DecryptWhilePending ==
    /\ EncryptPending
    /\ Len(timers') = Len(timers) + 1
    /\ timers'[Len(timers')].fn = "decrypt"

\* the callback will work on the input as it is now, not yet replaced
OldInputKept ==
    /\ timers'[Len(timers')].ciphertext = TrimString(ui.inputField)
    /\ timers'[Len(timers')].ciphertext.t = "text"

\* C25: when an Encrypt click has completed, the input field holds the
\* ciphertext and the key field the key that was used, so that a Decrypt
\* click that follows with no edit in between displays the plaintext that
\* was entered, trimmed; a Decrypt click made while the encryption is pending
\* works on the input that is not yet replaced.
C25_EncryptThenDecrypt ==
    [][/\ EncryptCompletes => FieldsReplaced
       /\ DecryptOfPlaced => PlaintextShown
       /\ DecryptWhilePending => OldInputKept]_vars

====
